---- MODULE Spec2Model ----
(***************************************************************************)
(* Model of the intervention optimizer's evaluation pipeline               *)
(* (src/src/scenarios.py, constraints.py, costs.py, model.py, main.py).    *)
(*                                                                         *)
(* Representation of the pandas values:                                    *)
(*  - a DataFrame is a sequence of records (rows, in frame order);         *)
(*  - a cell that may be blank in the CSV (NaN after read_csv) is a        *)
(*    sequence: <<>> is NaN, <<v>> is the number v;                        *)
(*  - sla_target_fill_rate and service_premium_cap are held in percent     *)
(*    (0.98 is 98, 1.15 is 115), so max_allowed_unmet_units and            *)
(*    premium_cap_total_cost are held in hundredths and every comparison   *)
(*    against them scales the other side by 100;                           *)
(*  - scenario_id is the number of the id ("SCN_002" is 2): ids of one     *)
(*    width sort as their numbers do;                                      *)
(*  - the explanation column (explain.py, presentation only) is not        *)
(*    carried.                                                             *)
(***************************************************************************)
EXTENDS Integers, Sequences, FiniteSets, TLC

VARIABLES inputs, options, scored, recommendations, pc, run, previous

vars == <<inputs, options, scored, recommendations, pc, run, previous>>

-----------------------------------------------------------------------------
(* NaN-aware arithmetic, as pandas/numpy compute it *)

NaN == <<>>

Num(v) == <<v>>

IsNaN(x) == x = <<>>

Val(x) == x[1]

Min2(a, b) == IF a <= b THEN a ELSE b

Max2(a, b) == IF a >= b THEN a ELSE b

\* Series * Series: NaN if either operand is NaN
NanMul(x, y) == IF IsNaN(x) \/ IsNaN(y) THEN NaN ELSE Num(Val(x) * Val(y))

\* x > 0 and x >= 0 on a Series: a comparison with NaN is False
Gt0(x) == ~IsNaN(x) /\ Val(x) > 0

Ge0(x) == ~IsNaN(x) /\ Val(x) >= 0

\* a / b for b # 0; the input sets keep every quotient whole
Quot(a, b) == IF b < 0 THEN (0 - a) \div (0 - b) ELSE a \div b

\* df[mask], mask a boolean Series over the frame's positions
RECURSIVE MaskFrom(_, _, _)
MaskFrom(df, mask, i) ==
  IF i > Len(df) THEN <<>>
  ELSE IF mask[i] THEN <<df[i]>> \o MaskFrom(df, mask, i + 1)
       ELSE MaskFrom(df, mask, i + 1)

Masked(df, mask) == MaskFrom(df, mask, 1)

\* df.drop(columns=[col])
DropColumn(r, col) == [f \in (DOMAIN r) \ {col} |-> r[f]]

RowSet(df) == {df[i] : i \in DOMAIN df}

SetMin(S) == CHOOSE m \in S : \A x \in S : m <= x

\* a before b on the columns by, all ascending
RECURSIVE LessBy(_, _, _)
LessBy(a, b, by) ==
  /\ by # <<>>
  /\ \/ a[Head(by)] < b[Head(by)]
     \/ a[Head(by)] = b[Head(by)] /\ LessBy(a, b, Tail(by))

\* DataFrame.sort_values(by) on several keys is a stable sort (lexsort):
\* each row is placed behind the rows before it that are not greater
RECURSIVE InsertRow(_, _, _)
InsertRow(r, sorted, by) ==
  IF sorted = <<>> THEN <<r>>
  ELSE LET last == sorted[Len(sorted)]
       IN  IF LessBy(r, last, by)
           THEN Append(InsertRow(r, SubSeq(sorted, 1, Len(sorted) - 1), by), last)
           ELSE Append(sorted, r)

RECURSIVE SortFrom(_, _, _)
SortFrom(df, by, n) ==
  IF n = 0 THEN <<>> ELSE InsertRow(df[n], SortFrom(df, by, n - 1), by)

sort_values(df, by) == SortFrom(df, by, Len(df))

\* groupby("scenario_id").cumcount() + 1 on a frame
CumCount(df, i) ==
  Cardinality({j \in 1..i : df[j].scenario_id = df[i].scenario_id})

-----------------------------------------------------------------------------
(* scenarios.py *)

OPTIONS == <<"do_nothing", "overtime", "temp_labor", "reroute", "outsource">>

gap_units(s) == Max2(0, s.forecast_demand_units - s.available_capacity_units)

\* in hundredths of a unit
max_allowed_unmet_units(s) ==
  s.forecast_demand_units * (100 - s.sla_target_fill_rate)

\* MinSkipNa without the min: the cap is taken as the recovery
MinSkipNa_Unclamped(gap, cap) == IF IsNaN(cap) THEN gap ELSE Val(cap)

\* pd.concat([gap, cap], axis=1).min(axis=1): the row-wise min skips NaN
MinSkipNa(gap, cap) == IF IsNaN(cap) THEN gap ELSE Min2(gap, Val(cap))

recovered_units(s, opt) ==
  CASE opt = "do_nothing" -> 0
    [] opt = "overtime"   ->
         MinSkipNa(gap_units(s), NanMul(s.max_ot_hours, s.ot_units_per_hour))
    [] opt = "temp_labor" -> MinSkipNa(gap_units(s), s.max_temp_units)
    [] opt = "reroute"    -> MinSkipNa(gap_units(s), s.max_reroute_units)
    [] opt = "outsource"  -> MinSkipNa(gap_units(s), s.max_outsource_units)

unmet_units(s, opt) == Max2(0, gap_units(s) - recovered_units(s, opt))

\* the columns simulate_options adds to the frame it works on
Derived(s) ==
  [gap_units |-> gap_units(s),
   max_allowed_unmet_units |-> max_allowed_unmet_units(s)]

\* InputsAfterSimulate without the copy: lines 29 and 32 write the derived
\* columns into the caller's frame
InputsAfterSimulate_InPlace(df) == [i \in DOMAIN df |-> Derived(df[i]) @@ df[i]]

\* what the caller's frame holds after the call: base = inputs.copy()
InputsAfterSimulate(df) == df

simulate_options(df) ==
  [k \in 1..(Len(df) * Len(OPTIONS)) |->
     LET s   == df[((k - 1) \div Len(OPTIONS)) + 1]
         opt == OPTIONS[((k - 1) % Len(OPTIONS)) + 1]
     IN  Derived(s) @@ s @@
         [option |-> opt,
          recovered_units |-> recovered_units(s, opt),
          unmet_units |-> unmet_units(s, opt)]]

-----------------------------------------------------------------------------
(* constraints.py *)

\* is_feasible with the cap tests strict, as the overtime test is
is_feasible_StrictCaps(r) ==
  CASE r.option = "do_nothing" -> TRUE
    [] r.option = "overtime"   -> Gt0(r.max_ot_hours) /\ Gt0(r.ot_units_per_hour)
    [] r.option = "temp_labor" -> Gt0(r.max_temp_units)
    [] r.option = "reroute"    -> Gt0(r.max_reroute_units)
    [] r.option = "outsource"  -> Gt0(r.max_outsource_units)

is_feasible(r) ==
  CASE r.option = "do_nothing" -> TRUE
    [] r.option = "overtime"   -> Gt0(r.max_ot_hours) /\ Gt0(r.ot_units_per_hour)
    [] r.option = "temp_labor" -> Ge0(r.max_temp_units)
    [] r.option = "reroute"    -> Ge0(r.max_reroute_units)
    [] r.option = "outsource"  -> Ge0(r.max_outsource_units)

flag_feasible(df) ==
  [k \in DOMAIN df |-> df[k] @@ [feasible |-> is_feasible(df[k])]]

-----------------------------------------------------------------------------
(* costs.py *)

sla_met(r) == r.unmet_units * 100 <= r.max_allowed_unmet_units

\* (recovered_units / ot_units_per_hour.replace(0, nan)).fillna(0.0)
ot_hours_used(r) ==
  IF r.option # "overtime" THEN 0
  ELSE IF IsNaN(r.ot_units_per_hour) \/ Val(r.ot_units_per_hour) = 0 THEN 0
  ELSE Quot(r.recovered_units, Val(r.ot_units_per_hour))

intervention_cost(r) ==
  CASE r.option = "do_nothing" -> 0
    [] r.option = "overtime"   -> ot_hours_used(r) * r.ot_cost_per_hour
    [] r.option = "temp_labor" -> r.recovered_units * r.temp_cost_per_unit
    [] r.option = "reroute"    -> r.recovered_units * r.reroute_cost_per_unit
    [] r.option = "outsource"  -> r.recovered_units * r.outsourcing_cost_per_unit

\* service_cost without line 44: no breach penalty is added
service_cost_NoPenalty(r) == r.unmet_units * r.late_cost_per_unit

service_cost(r) ==
  r.unmet_units * r.late_cost_per_unit
    + (IF sla_met(r) THEN 0 ELSE r.sla_breach_penalty)

total_cost(r) == intervention_cost(r) + service_cost(r)

compute_costs_and_sla(df) ==
  [k \in DOMAIN df |->
     df[k] @@
     [sla_met |-> sla_met(df[k]),
      intervention_cost |-> intervention_cost(df[k]),
      ot_hours_used |-> ot_hours_used(df[k]),
      service_cost |-> service_cost(df[k]),
      total_cost |-> total_cost(df[k])]]

-----------------------------------------------------------------------------
(* model.py *)

DefaultPremiumCap == 115

SameScenario(df, r) == {df[j] : j \in {i \in DOMAIN df : df[i].scenario_id = r.scenario_id}}

\* lines 34-43: sla_any, service_premium_cap, baseline_total_cost and
\* premium_cap_total_cost (in hundredths), per scenario over the feasible set
PolicyColumns(feasible) ==
  [k \in DOMAIN feasible |->
     LET r        == feasible[k]
         grp      == SameScenario(feasible, r)
         cap      == IF IsNaN(r.service_premium_cap) THEN DefaultPremiumCap
                     ELSE Val(r.service_premium_cap)
         baseline == SetMin({g.total_cost : g \in grp})
     IN  [sla_any |-> \E g \in grp : g.sla_met,
          service_premium_cap |-> cap,
          baseline_total_cost |-> baseline,
          premium_cap_total_cost |-> baseline * cap] @@ r]

AddRank(df) == [k \in DOMAIN df |-> df[k] @@ [rank |-> CumCount(df, k)]]

\* WithSla without line 47: the rows that miss the SLA stay in the frame
WithSla_Unfiltered(feasible) ==
  AddRank(sort_values(Masked(feasible, [i \in DOMAIN feasible |->
                                            feasible[i].sla_any]),
                      <<"scenario_id", "total_cost">>))

\* A) lines 46-49
WithSla(feasible) ==
  LET sla_any  == Masked(feasible, [i \in DOMAIN feasible |->
                                      feasible[i].sla_any])
      with_sla == Masked(sla_any, [i \in DOMAIN sla_any |-> sla_any[i].sla_met])
  IN  AddRank(sort_values(with_sla, <<"scenario_id", "total_cost">>))

\* InCapWindow with the comparison strict
InCapWindow_Strict(r) == r.total_cost * 100 < r.premium_cap_total_cost

InCapWindow(r) == r.total_cost * 100 <= r.premium_cap_total_cost

\* lines 59-61: the rows of the no-SLA scenarios at their scenario's minimum
Fallback(feasible) ==
  LET fallback == Masked(feasible, [i \in DOMAIN feasible |->
                                      ~feasible[i].sla_any])
      baseline == [i \in DOMAIN fallback |->
                     SetMin({g.total_cost :
                               g \in SameScenario(fallback, fallback[i])})]
  IN  Masked(fallback, [i \in DOMAIN fallback |->
                          fallback[i].total_cost = baseline[i]])

\* CapWindow without line 55: no row is held against the cap
CapWindow_Unfiltered(no_sla, feasible) == no_sla

\* lines 55-61: the cap window, and the fallback when the window leaves the
\* frame of all no-SLA scenarios empty
CapWindow(no_sla, feasible) ==
  LET kept == Masked(no_sla, [i \in DOMAIN no_sla |-> InCapWindow(no_sla[i])])
  IN  IF kept = <<>> THEN Fallback(feasible) ELSE kept

\* B) lines 52-67
NoSla(feasible) ==
  LET no_sla == Masked(feasible, [i \in DOMAIN feasible |->
                                    ~feasible[i].sla_any])
  IN  IF no_sla = <<>> THEN no_sla
      ELSE AddRank(sort_values(CapWindow(no_sla, feasible),
                               <<"scenario_id", "unmet_units", "total_cost">>))

\* lines 27-29: the option table with its feasibility and cost columns
OptionTable(df) == compute_costs_and_sla(flag_feasible(simulate_options(df)))

\* lines 31-72
SelectAndRank(opts) ==
  LET feasible == PolicyColumns(Masked(opts, [i \in DOMAIN opts |->
                                                    opts[i].feasible]))
      out      == WithSla(feasible) \o NoSla(feasible)
  IN  [k \in DOMAIN out |-> DropColumn(out[k], "sla_any")]

evaluate_all_options(df) == SelectAndRank(OptionTable(df))

\* choose_recommendation with head(2)
choose_recommendation_HeadTwo(sc) ==
  LET sorted == sort_values(sc, <<"scenario_id", "rank">>)
  IN  Masked(sorted, [i \in DOMAIN sorted |-> CumCount(sorted, i) <= 2])

\* groupby("scenario_id").head(1) keeps the sorted frame's order
choose_recommendation(sc) ==
  LET sorted == sort_values(sc, <<"scenario_id", "rank">>)
  IN  Masked(sorted, [i \in DOMAIN sorted |-> CumCount(sorted, i) <= 1])

-----------------------------------------------------------------------------
(* main.py: the input tables load_inputs may return, and the run *)

MaxOtHours == 1

MaxUnitCost == 2

MaxRuns == 2

Cells(S) == {Num(v) : v \in S}

Blankable(S) == {NaN} \cup Cells(S)

\* one CSV line; the units and costs held fixed keep every overtime quotient
\* whole and every cap product exact in binary floating point
Scenario(id, capacity, fill, hours, rate, temp, temp_cost, reroute, outsource, premium) ==
  [scenario_id |-> id,
   forecast_demand_units |-> 4,
   available_capacity_units |-> capacity,
   sla_target_fill_rate |-> fill,
   max_ot_hours |-> hours,
   ot_units_per_hour |-> rate,
   ot_cost_per_hour |-> 1,
   max_temp_units |-> temp,
   temp_cost_per_unit |-> temp_cost,
   max_reroute_units |-> reroute,
   reroute_cost_per_unit |-> 3,
   max_outsource_units |-> outsource,
   outsourcing_cost_per_unit |-> 4,
   late_cost_per_unit |-> 1,
   sla_breach_penalty |-> 2,
   service_premium_cap |-> premium]

\* the scenario whose parameters range widely
ScenarioRecords ==
  {Scenario(2, 0, fill, hours, rate, temp, temp_cost, reroute, outsource,
            premium) :
     fill \in {50, 100},
     hours \in Blankable((0 - 1)..MaxOtHours), rate \in Cells({0, 2}),
     temp \in Blankable({0 - 1, 0, 2}), temp_cost \in 1..MaxUnitCost,
     reroute \in Cells({0, 3}), outsource \in Cells({0, 5}),
     premium \in Blankable({50, 150})}

\* a second line of the table, before or after the first in id order: every
\* cap 0, with a shortfall no option closes or with no shortfall at all
\* (the last with a negative late cost, so that its costs are negative)
CompanionRecords ==
  {Scenario(id, shape[1], 100, Num(0), Num(0), Num(0), 1, Num(0), Num(0),
            Num(shape[2])) :
     id \in {1, 3}, shape \in {<<0, 50>>, <<0, 100>>, <<6, 100>>}}
    \cup
  {[Scenario(id, 0, 100, Num(0), Num(0), Num(0), 1, Num(0), Num(0), Num(150))
      EXCEPT !.late_cost_per_unit = 0 - 1] : id \in {1, 3}}

InputTables ==
  {<<s>> : s \in ScenarioRecords}
    \cup {<<s, t>> : s \in ScenarioRecords, t \in CompanionRecords}

\* the tables of the runs that are repeated
RerunTables ==
  {<<s>> : s \in ScenarioRecords}
    \cup {<<s, t>> : s, t \in CompanionRecords}

Loaded ==
  /\ options = <<>>
  /\ scored = <<>>
  /\ recommendations = <<>>
  /\ pc = "loaded"
  /\ run = 1
  /\ previous = [scored |-> <<>>, recommendations |-> <<>>]

Init == inputs \in InputTables /\ Loaded

InitRerun == inputs \in RerunTables /\ Loaded

\* main.py line 24: scored = evaluate_all_options(df)
EvaluateAllOptions ==
  /\ pc = "loaded"
  /\ LET opts == OptionTable(inputs)
     IN  options' = opts /\ scored' = SelectAndRank(opts)
  /\ inputs' = InputsAfterSimulate(inputs)
  /\ pc' = "scored"
  /\ UNCHANGED <<recommendations, run, previous>>

\* main.py line 25: recommendations = choose_recommendation(scored)
ChooseRecommendation ==
  /\ pc = "scored"
  /\ recommendations' = choose_recommendation(scored)
  /\ pc' = "recommended"
  /\ UNCHANGED <<inputs, options, scored, run, previous>>

\* main() is run once more on the same table
RunAgain ==
  /\ pc = "recommended"
  /\ run < MaxRuns
  /\ previous' = [scored |-> scored, recommendations |-> recommendations]
  /\ run' = run + 1
  /\ pc' = "loaded"
  /\ UNCHANGED <<inputs, options, scored, recommendations>>

Next == EvaluateAllOptions \/ ChooseRecommendation

Spec == Init /\ [][Next]_vars

NextRerun == EvaluateAllOptions \/ ChooseRecommendation \/ RunAgain

SpecRerun == InitRerun /\ [][NextRerun]_vars

-----------------------------------------------------------------------------
(* Vocabulary of the properties *)

ScenarioIds(df) == {df[i].scenario_id : i \in DOMAIN df}

RowsOf(df, sid) == {r \in RowSet(df) : r.scenario_id = sid}

\* the frame's rows of one scenario, in frame order
FrameOf(df, sid) == Masked(df, [i \in DOMAIN df |-> df[i].scenario_id = sid])

FeasibleOf(sid) == {r \in RowsOf(options, sid) : r.feasible}

SlaRowsOf(sid) == {r \in FeasibleOf(sid) : r.sla_met}

BaselineOf(sid) == SetMin({r.total_cost : r \in FeasibleOf(sid)})

\* service_premium_cap of the scenario in percent, 1.15 when blank
CapOf(sid) ==
  LET s == CHOOSE s \in RowSet(inputs) : s.scenario_id = sid
  IN  IF IsNaN(s.service_premium_cap) THEN DefaultPremiumCap
      ELSE Val(s.service_premium_cap)

\* baseline_total_cost * service_premium_cap, in hundredths
CapCostOf(sid) == BaselineOf(sid) * CapOf(sid)

\* the feasible rows with total_cost <= baseline_total_cost * service_premium_cap
WindowOf(sid) ==
  LET bound == CapCostOf(sid)
  IN  {r \in FeasibleOf(sid) : r.total_cost * 100 <= bound}

Evaluated == pc \in {"scored", "recommended"}

Recommended == pc = "recommended"

-----------------------------------------------------------------------------
(* Properties *)

\* C1: in every scenario with a feasible row that meets the SLA, the
\* recommended row meets the SLA and has the least total_cost of the
\* scenario's feasible rows that meet it.
C1_SlaFirstCheapest ==
  Recommended =>
    \A sid \in ScenarioIds(inputs) :
      LET sla == SlaRowsOf(sid)
          rec == RowsOf(recommendations, sid)
      IN  sla # {} =>
            /\ rec # {}
            /\ LET least == SetMin({x.total_cost : x \in sla})
               IN  \A r \in rec : r.sla_met /\ r.total_cost = least

\* a scenario with two SLA rows of different cost whose recommended row is
\* dearer than a feasible row that misses the SLA
C1_Witness ==
  /\ Recommended
  /\ \E sid \in ScenarioIds(inputs) :
       /\ \E x, y \in SlaRowsOf(sid) : x.total_cost < y.total_cost
       /\ \E r \in RowsOf(recommendations, sid) :
            \E f \in FeasibleOf(sid) : ~f.sla_met /\ f.total_cost < r.total_cost

\* the bound and the order C2 states, for the rows recommended to sid
InWindowLeastUnmet(sid) ==
  LET bound  == CapCostOf(sid)
      window == WindowOf(sid)
  IN  \A r \in RowsOf(recommendations, sid) :
        /\ r.total_cost * 100 <= bound
        /\ \A w \in window :
             \/ r.unmet_units < w.unmet_units
             \/ r.unmet_units = w.unmet_units /\ r.total_cost <= w.total_cost

\* C2 as stated: in every scenario with no feasible row that meets the SLA
\* the recommended row costs at most baseline_total_cost *
\* service_premium_cap and has the least unmet_units (then the least
\* total_cost) of the feasible rows within that bound.
C2_Original ==
  Recommended =>
    \A sid \in ScenarioIds(inputs) :
      SlaRowsOf(sid) = {} => InWindowLeastUnmet(sid)

\* C2 amended: the same, for the scenarios with no SLA row that have at
\* least one feasible row within the bound; such a scenario is recommended
\* a row.
C2_WithinCapLeastUnmet ==
  Recommended =>
    \A sid \in ScenarioIds(inputs) :
      (SlaRowsOf(sid) = {} /\ WindowOf(sid) # {}) =>
        RowsOf(recommendations, sid) # {} /\ InWindowLeastUnmet(sid)

\* a no-SLA scenario whose window holds some feasible rows and not others,
\* and whose recommended row is not the cheapest one
C2_Witness ==
  /\ Recommended
  /\ \E sid \in ScenarioIds(inputs) :
       /\ SlaRowsOf(sid) = {}
       /\ WindowOf(sid) # {}
       /\ WindowOf(sid) # FeasibleOf(sid)
       /\ \E r \in RowsOf(recommendations, sid) : r.total_cost > BaselineOf(sid)

\* C3: in the scored table every input scenario with a feasible row has
\* k >= 1 rows, ranked exactly 1..k with no gap and no duplicate, so
\* exactly one of its rows has rank 1.
C3_DenseRanks ==
  Evaluated =>
    \A sid \in ScenarioIds(inputs) :
      FeasibleOf(sid) # {} =>
        LET frame == FrameOf(scored, sid)
        IN  /\ Len(frame) >= 1
            /\ {frame[i].rank : i \in DOMAIN frame} = 1..Len(frame)
            /\ Cardinality({i \in DOMAIN frame : frame[i].rank = 1}) = 1

\* C4: the rows the scored table holds for a scenario are the rows the
\* scenario gets when its line is evaluated alone.
C4_ScenarioIndependence ==
  Evaluated =>
    \A i \in DOMAIN inputs :
      RowsOf(scored, inputs[i].scenario_id)
        = RowSet(evaluate_all_options(<<inputs[i]>>))

\* C5: a scenario with no SLA row whose feasible rows all cost more than
\* premium_cap_total_cost keeps exactly its feasible rows of least
\* total_cost, and is recommended a row.
C5_PremiumCapFallback ==
  Recommended =>
    \A sid \in ScenarioIds(inputs) :
      (SlaRowsOf(sid) = {} /\ WindowOf(sid) = {}) =>
        /\ {r.option : r \in RowsOf(scored, sid)}
             = {r.option : r \in {f \in FeasibleOf(sid) :
                                    f.total_cost = BaselineOf(sid)}}
        /\ RowsOf(recommendations, sid) # {}

\* every cap 0 and no overtime hours or rate
AllCapsZero(s) ==
  /\ s.max_ot_hours = Num(0) /\ s.ot_units_per_hour = Num(0)
  /\ s.max_temp_units = Num(0)
  /\ s.max_reroute_units = Num(0)
  /\ s.max_outsource_units = Num(0)

OptionsIn(frame) == [i \in DOMAIN frame |-> frame[i].option]

\* C6 as stated: in a scenario with every cap 0 and overtime hours and rate
\* 0, overtime, temp_labor, reroute and outsource are flagged infeasible,
\* do_nothing is the scenario's only scored row and is its recommendation.
C6_Original ==
  Evaluated =>
    \A i \in DOMAIN inputs :
      AllCapsZero(inputs[i]) =>
        LET sid == inputs[i].scenario_id
        IN  /\ \A r \in RowsOf(options, sid) :
                 r.option # "do_nothing" => ~r.feasible
            /\ OptionsIn(FrameOf(scored, sid)) = <<"do_nothing">>
            /\ Recommended =>
                 OptionsIn(FrameOf(recommendations, sid)) = <<"do_nothing">>

\* C6 amended: in such a scenario only overtime is flagged infeasible;
\* temp_labor, reroute and outsource are feasible, recover nothing and cost
\* what do_nothing costs. The scenario's scored rows are do_nothing,
\* temp_labor, reroute, outsource ranked 1..4 in that order, or none at all
\* when it has no SLA row, no row within its cap and another no-SLA
\* scenario of the table has one; a row recommended to it is do_nothing.
C6_ZeroCapsStayFeasible ==
  Evaluated =>
    \A i \in DOMAIN inputs :
      AllCapsZero(inputs[i]) =>
        LET sid   == inputs[i].scenario_id
            rows  == RowsOf(options, sid)
            frame == FrameOf(scored, sid)
        IN  /\ \A r \in rows : r.feasible <=> r.option # "overtime"
            /\ \A r, q \in rows :
                 r.recovered_units = 0 /\ r.total_cost = q.total_cost
            /\ \/ /\ OptionsIn(frame)
                      = <<"do_nothing", "temp_labor", "reroute", "outsource">>
                  /\ \A k \in DOMAIN frame : frame[k].rank = k
               \/ /\ frame = <<>>
                  /\ SlaRowsOf(sid) = {} /\ WindowOf(sid) = {}
                  /\ \E other \in ScenarioIds(inputs) \ {sid} :
                       SlaRowsOf(other) = {} /\ WindowOf(other) # {}
            /\ \A r \in RowsOf(recommendations, sid) :
                 Recommended => r.option = "do_nothing"

\* an all-caps-zero scenario with its four scored rows, do_nothing recommended
C6_Witness ==
  /\ Recommended
  /\ \E i \in DOMAIN inputs :
       /\ AllCapsZero(inputs[i])
       /\ Len(FrameOf(scored, inputs[i].scenario_id)) = 4
       /\ \E r \in RowsOf(recommendations, inputs[i].scenario_id) :
            r.option = "do_nothing"

GapIsShortfall(r) ==
  r.gap_units = Max2(0, r.forecast_demand_units - r.available_capacity_units)

\* C7 as stated: on every row of simulate_options, for every input,
\* 0 <= recovered_units <= gap_units and unmet_units = gap_units -
\* recovered_units, gap_units being max(0, demand - capacity).
C7_Original ==
  \A r \in RowSet(options) :
    /\ GapIsShortfall(r)
    /\ 0 <= r.recovered_units /\ r.recovered_units <= r.gap_units
    /\ r.unmet_units = r.gap_units - r.recovered_units

\* C7 amended: on every row recovered_units <= gap_units and unmet_units =
\* gap_units - recovered_units; 0 <= recovered_units holds on the rows
\* flagged feasible (a negative cap gives a negative recovered_units, on a
\* row flag_feasible marks infeasible).
C7_RecoveredWithinGap ==
  \A r \in RowSet(options) :
    /\ GapIsShortfall(r)
    /\ r.recovered_units <= r.gap_units
    /\ r.unmet_units = r.gap_units - r.recovered_units
    /\ r.feasible => 0 <= r.recovered_units

\* an option table with a negative recovery on an infeasible row, a partial
\* recovery on a feasible row and a cap above the gap
C7_Witness ==
  /\ \E r \in RowSet(options) : r.recovered_units < 0 /\ ~r.feasible
  /\ \E r \in RowSet(options) :
       r.feasible /\ 0 < r.recovered_units /\ r.recovered_units < r.gap_units
  /\ \E r \in RowSet(options) :
       /\ r.option = "outsource" /\ Val(r.max_outsource_units) > r.gap_units
       /\ r.recovered_units = r.gap_units

\* C8: choose_recommendation returns exactly one row for every scenario_id
\* of the scored table, the scenario's row of rank 1, and no row for any
\* other scenario_id.
C8_OneRankOneRowPerScenario ==
  Recommended =>
    /\ \A sid \in ScenarioIds(scored) :
         LET rec == FrameOf(recommendations, sid)
         IN  /\ Len(rec) = 1
             /\ rec[1].rank = 1
             /\ rec[1] \in RowsOf(scored, sid)
    /\ ScenarioIds(recommendations) \subseteq ScenarioIds(scored)

\* two scenarios in the scored table, one of them with three rows or more,
\* given in the table against their id order
C8_Witness ==
  /\ Recommended
  /\ Cardinality(ScenarioIds(scored)) = 2
  /\ \E sid \in ScenarioIds(scored) : Len(FrameOf(scored, sid)) >= 3
  /\ inputs[1].scenario_id > inputs[2].scenario_id

CapMissing(r) ==
  CASE r.option = "do_nothing" -> FALSE
    [] r.option = "overtime"   -> IsNaN(r.max_ot_hours) \/ IsNaN(r.ot_units_per_hour)
    [] r.option = "temp_labor" -> IsNaN(r.max_temp_units)
    [] r.option = "reroute"    -> IsNaN(r.max_reroute_units)
    [] r.option = "outsource"  -> IsNaN(r.max_outsource_units)

\* C10: a row whose option's capacity parameter is blank has
\* recovered_units = 0 and unmet_units = gap_units.
C10_MissingCapRecoversNothing ==
  \A r \in RowSet(options) :
    CapMissing(r) => r.recovered_units = 0 /\ r.unmet_units = r.gap_units

\* every parameter of the line is a number and none is negative
ParametersNonNegative(s) ==
  /\ s.forecast_demand_units >= 0 /\ s.available_capacity_units >= 0
  /\ s.sla_target_fill_rate >= 0
  /\ Ge0(s.max_ot_hours) /\ Ge0(s.ot_units_per_hour)
  /\ Ge0(s.max_temp_units) /\ Ge0(s.max_reroute_units)
  /\ Ge0(s.max_outsource_units)
  /\ s.ot_cost_per_hour >= 0 /\ s.temp_cost_per_unit >= 0
  /\ s.reroute_cost_per_unit >= 0 /\ s.outsourcing_cost_per_unit >= 0
  /\ s.late_cost_per_unit >= 0 /\ s.sla_breach_penalty >= 0

\* C11: on every row of compute_costs_and_sla total_cost = intervention_cost
\* + service_cost, service_cost being unmet_units * late_cost_per_unit plus
\* sla_breach_penalty exactly when unmet_units > max_allowed_unmet_units;
\* on the rows of a line whose parameters are all non-negative both
\* intervention_cost and service_cost are >= 0.
C11_CostsAddUp ==
  \A r \in RowSet(options) :
    /\ r.total_cost = r.intervention_cost + r.service_cost
    /\ r.service_cost =
         r.unmet_units * r.late_cost_per_unit
           + (IF r.unmet_units * 100 > r.max_allowed_unmet_units
              THEN r.sla_breach_penalty ELSE 0)
    /\ ParametersNonNegative(r) =>
         r.intervention_cost >= 0 /\ r.service_cost >= 0

\* a line of non-negative parameters with a row that pays for its recovery
\* and the breach penalty, beside a line whose service cost is negative
C11_Witness ==
  /\ \E r \in RowSet(options) :
       /\ ParametersNonNegative(r)
       /\ r.intervention_cost > 0
       /\ r.unmet_units * 100 > r.max_allowed_unmet_units
       /\ r.service_cost > r.unmet_units * r.late_cost_per_unit
  /\ \E r \in RowSet(options) : r.service_cost < 0

CostsNonNegative(s) ==
  /\ s.ot_cost_per_hour >= 0 /\ s.temp_cost_per_unit >= 0
  /\ s.reroute_cost_per_unit >= 0 /\ s.outsourcing_cost_per_unit >= 0
  /\ s.late_cost_per_unit >= 0 /\ s.sla_breach_penalty >= 0

\* service_premium_cap >= 1, or blank and so defaulted to 1.15
CapAtLeastOne(s) ==
  IsNaN(s.service_premium_cap) \/ Val(s.service_premium_cap) >= 100

\* the test of model.py line 58 on the option table of the run: there are
\* rows of no-SLA scenarios and the cap window keeps none of them
FallbackTaken ==
  LET feasible == PolicyColumns(Masked(options, [i \in DOMAIN options |->
                                                   options[i].feasible]))
      no_sla   == Masked(feasible, [i \in DOMAIN feasible |->
                                      ~feasible[i].sla_any])
  IN  /\ no_sla # <<>>
      /\ \A i \in DOMAIN no_sla : ~InCapWindow(no_sla[i])

\* C12: do_nothing is feasible in every input scenario; and in a table whose
\* cost parameters are all non-negative and whose service_premium_cap is
\* >= 1 or blank on every line, each scenario's cheapest feasible row is
\* within its cap, the fallback is not taken, every input scenario_id is in
\* the scored table and each has exactly one recommended row.
C12_NoScenarioDropped ==
  Evaluated =>
    /\ \A sid \in ScenarioIds(inputs) :
         \E r \in FeasibleOf(sid) : r.option = "do_nothing"
    /\ (\A i \in DOMAIN inputs :
          CostsNonNegative(inputs[i]) /\ CapAtLeastOne(inputs[i])) =>
         /\ \A sid \in ScenarioIds(inputs) :
              \E r \in WindowOf(sid) : r.total_cost = BaselineOf(sid)
         /\ ~FallbackTaken
         /\ ScenarioIds(scored) = ScenarioIds(inputs)
         /\ Recommended =>
              \A sid \in ScenarioIds(inputs) :
                Len(FrameOf(recommendations, sid)) = 1

\* a table of two no-SLA scenarios with non-negative costs and caps >= 1,
\* one of them with a feasible row its cap leaves out
C12_Witness ==
  /\ Recommended
  /\ Len(inputs) = 2
  /\ \A i \in DOMAIN inputs :
       /\ CostsNonNegative(inputs[i]) /\ CapAtLeastOne(inputs[i])
       /\ SlaRowsOf(inputs[i].scenario_id) = {}
  /\ \E sid \in ScenarioIds(inputs) : WindowOf(sid) # FeasibleOf(sid)

====
